---- MODULE Spec2Model ----
(***************************************************************************)
(* Gender filtering of parallel and monolingual corpora (gfst-nmt).        *)
(*                                                                         *)
(* A Python str is a sequence of one-character strings.  A line of a file  *)
(* is a record [text, pad, nl] standing for the str                        *)
(*     text \o (pad spaces) \o (IF nl THEN "\n" ELSE "")                   *)
(* so that a line of a thousand characters needs no thousand-element       *)
(* tuple; text never ends in whitespace.                                   *)
(***************************************************************************)
EXTENDS FiniteSets, Integers, Sequences, TLC

(***************************************************************************)
(* utils.py: labels and supported arguments                                *)
(***************************************************************************)
FEM_LABEL == "fem"
MSC_LABEL == "msc"
OTHER_LABEL == "other"
SUPPORTED_GENDERS == {FEM_LABEL, MSC_LABEL}
SUPPORTED_LANGUAGES == {"de", "fr", "he", "it", "ru"}

\* Python's None (a missing line of zip_longest, a missing gender of a tag)
None == "None"

(***************************************************************************)
(* str operations                                                          *)
(***************************************************************************)
\* string.punctuation, the characters PUNCTUATION_STRIPPER deletes (the grave
\* accent, which a string of this language cannot hold, is spelled out)
Punctuation ==
    {"!", "\"", "#", "$", "%", "&", "'", "(", ")", "*", "+", ",", "-", ".", "/",
     ":", ";", "<", "=", ">", "?", "@", "[", "\\", "]", "^", "_", "backtick", "{", "|", "}", "~"}
UpperCase == <<"A","B","C","D","E","F","G","H","I","J","K","L","M","N","O","P","Q","R","S","T","U","V","W","X","Y","Z">>
LowerCase == <<"a","b","c","d","e","f","g","h","i","j","k","l","m","n","o","p","q","r","s","t","u","v","w","x","y","z">>

\* the characters str.split() and str.strip() treat as whitespace
Whitespace == {" ", "\t", "\n"}

\* str.lower() on one character
LowerChar(c) ==
    IF \E i \in 1..Len(UpperCase) : UpperCase[i] = c
    THEN LowerCase[CHOOSE i \in 1..Len(UpperCase) : UpperCase[i] = c]
    ELSE c

\* str.lower()
Lower(s) == [i \in 1..Len(s) |-> LowerChar(s[i])]

\* str.translate(PUNCTUATION_STRIPPER)
IsNotPunct(c) == c \notin Punctuation
StripPunctuation(s) == SelectSeq(s, IsNotPunct)

\* str.strip(): drop the leading and the trailing whitespace
RECURSIVE LStrip(_)
LStrip(s) ==
    IF s # <<>> /\ Head(s) \in Whitespace THEN LStrip(Tail(s)) ELSE s

RECURSIVE RStrip(_)
RStrip(s) ==
    IF s # <<>> /\ s[Len(s)] \in Whitespace
    THEN RStrip(SubSeq(s, 1, Len(s) - 1)) ELSE s

Strip(s) == RStrip(LStrip(s))

\* str.split(): the maximal runs of non-whitespace characters, in order
RECURSIVE SplitAcc(_, _, _, _)
SplitAcc(s, i, cur, acc) ==
    IF i > Len(s)
    THEN IF cur = <<>> THEN acc ELSE Append(acc, cur)
    ELSE IF s[i] \in Whitespace
         THEN SplitAcc(s, i + 1, <<>>, IF cur = <<>> THEN acc ELSE Append(acc, cur))
         ELSE SplitAcc(s, i + 1, Append(cur, s[i]), acc)

Split(s) == SplitAcc(s, 1, <<>>, <<>>)

\* set(list)
SeqToSet(q) == {q[i] : i \in 1..Len(q)}

RECURSIVE Spaces(_)
Spaces(n) == IF n = 0 THEN <<>> ELSE <<" ">> \o Spaces(n - 1)

\* a line of a file and the str it stands for
MkLine(text, pad, nl) == [text |-> text, pad |-> pad, nl |-> nl]

\* len(line)
StrLen(line) == Len(line.text) + line.pad + (IF line.nl THEN 1 ELSE 0)

\* line.strip(): the padding and the newline are trailing whitespace
StripLine(line) == Strip(line.text)

(***************************************************************************)
(* source_filter.py: the closed English wordlists                          *)
(***************************************************************************)
FEM_PRO ==
    {<<"s","h","e">>, <<"h","e","r">>, <<"h","e","r","s","e","l","f">>, <<"h","e","r","s">>}

MSC_PRO ==
    {<<"h","e">>, <<"h","i","m">>, <<"h","i","s">>, <<"h","i","m","s","e","l","f">>}

FEM_WORDS ==
    {<<"M","s">>, <<"M","r","s">>, <<"M","s",".">>, <<"M","r","s",".">>, <<"m","a","d","a","m">>,
     <<"w","o","m","a","n">>, <<"w","o","m","e","n">>, <<"a","c","t","r","e","s","s">>,
     <<"a","c","t","r","e","s","s","e","s">>, <<"a","i","r","w","o","m","a","n">>,
     <<"a","i","r","w","o","m","e","n">>, <<"a","u","n","t","s">>, <<"a","u","n","t">>,
     <<"g","i","r","l">>, <<"g","i","r","l","s">>, <<"b","r","i","d","e">>,
     <<"b","r","i","d","e","s">>, <<"s","i","s","t","e","r">>, <<"s","i","s","t","e","r","s">>,
     <<"b","u","s","i","n","e","s","s","w","o","m","a","n">>,
     <<"b","u","s","i","n","e","s","s","w","o","m","e","n">>,
     <<"c","h","a","i","r","w","o","m","a","n">>, <<"c","h","a","i","r","w","o","m","e","n">>,
     <<"c","h","i","c","k">>, <<"c","h","i","c","k","s">>, <<"m","o","m">>, <<"m","o","m","s">>,
     <<"m","o","m","m","y">>, <<"m","o","m","m","i","e","s">>,
     <<"d","a","u","g","h","t","e","r">>, <<"d","a","u","g","h","t","e","r","s">>,
     <<"m","o","t","h","e","r">>, <<"m","o","t","h","e","r","s">>, <<"f","e","m","a","l","e">>,
     <<"f","e","m","a","l","e","s">>, <<"g","a","l">>, <<"g","a","l","s">>, <<"l","a","d","y">>,
     <<"l","a","d","i","e","s">>, <<"g","r","a","n","d","d","a","u","g","h","t","e","r">>,
     <<"g","r","a","n","d","d","a","u","g","h","t","e","r","s">>, <<"w","i","f","e">>,
     <<"w","i","v","e","s">>, <<"q","u","e","e","n">>, <<"q","u","e","e","n","s">>,
     <<"p","o","l","i","c","e","w","o","m","a","n">>,
     <<"p","o","l","i","c","e","w","o","m","e","n">>, <<"p","r","i","n","c","e","s","s">>,
     <<"p","r","i","n","c","e","s","s","e","s">>,
     <<"s","p","o","k","e","s","w","o","m","a","n">>,
     <<"s","p","o","k","e","s","w","o","m","e","n">>} \cup FEM_PRO

MSC_WORDS ==
    {<<"M","r",".">>, <<"M","r">>, <<"s","i","r">>, <<"m","a","n">>, <<"m","e","n">>,
     <<"a","c","t","o","r">>, <<"a","c","t","o","r","s">>, <<"u","n","c","l","e">>,
     <<"u","n","c","l","e","s">>, <<"b","o","y","s">>, <<"b","o","y">>, <<"g","r","o","o","m">>,
     <<"g","r","o","o","m","s">>, <<"b","r","o","t","h","e","r">>,
     <<"b","r","o","t","h","e","r","s">>, <<"b","u","s","i","n","e","s","s","m","a","n">>,
     <<"b","u","s","i","n","e","s","s","m","e","n">>, <<"c","h","a","i","r","m","a","n">>,
     <<"c","h","a","i","r","m","e","n">>, <<"d","u","d","e">>, <<"d","u","d","e","s">>,
     <<"d","a","d">>, <<"d","a","d","s">>, <<"d","a","d","d","y">>,
     <<"d","a","d","d","i","e","s">>, <<"s","o","n">>, <<"s","o","n","s">>,
     <<"f","a","t","h","e","r">>, <<"f","a","t","h","e","r","s">>, <<"m","a","l","e">>,
     <<"m","a","l","e","s">>, <<"g","u","y">>, <<"g","u","y","s">>,
     <<"g","e","n","t","l","e","m","a","n">>, <<"g","e","n","t","l","e","m","e","n">>,
     <<"g","r","a","n","d","s","o","n">>, <<"g","r","a","n","d","s","o","n","s">>,
     <<"h","u","s","b","a","n","d">>, <<"h","u","s","b","a","n","d","s">>, <<"k","i","n","g">>,
     <<"k","i","n","g","s">>, <<"l","o","r","d">>, <<"l","o","r","d","s">>,
     <<"p","o","l","i","c","e","m","a","n">>, <<"p","o","l","i","c","e","m","e","n">>,
     <<"p","r","i","n","c","e","s">>, <<"p","r","i","n","c","e","s">>,
     <<"s","p","o","k","e","s","m","a","n">>, <<"s","p","o","k","e","s","m","e","n">>} \cup MSC_PRO

\* the words lowercased only
_get_words_lowercased(line) ==
    LET clean_line == StripPunctuation(StripLine(line))
    IN  SeqToSet(Split(Lower(clean_line)))

\* source_filter._get_words
_get_words(line) ==
    LET clean_line == StripPunctuation(StripLine(line))
    IN  SeqToSet(Split(Lower(clean_line))) \cup SeqToSet(Split(clean_line))

\* the gender decided by any word of a list instead of by a pronoun
_get_gender_any_word(line) ==
    LET words == _get_words(line)
        has_word_fem == words \cap FEM_WORDS
        has_word_msc == words \cap MSC_WORDS
    IN  IF has_word_fem # {} /\ has_word_msc = {} THEN FEM_LABEL
        ELSE IF has_word_msc # {} /\ has_word_fem = {} THEN MSC_LABEL
        ELSE OTHER_LABEL

\* source_filter._get_gender
_get_gender(line) ==
    LET words == _get_words(line)
        has_pro_fem == words \cap FEM_PRO
        has_pro_msc == words \cap MSC_PRO
        has_word_fem == words \cap FEM_WORDS
        has_word_msc == words \cap MSC_WORDS
    IN  IF has_pro_fem # {} /\ has_word_msc = {} THEN FEM_LABEL
        ELSE IF has_pro_msc # {} /\ has_word_fem = {} THEN MSC_LABEL
        ELSE OTHER_LABEL

(***************************************************************************)
(* morphological_filtering.py: label tables built by the constructors      *)
(***************************************************************************)
\* an update of one label set of a table: table[g].update(labels)
LabelsUpdate(table, g, labels) == [table EXCEPT ![g] = @ \cup labels]

\* MorphFilterer.__init__
MorphFilterer_init ==
    [MATCH_GENDER_LABELS |-> (FEM_LABEL :> {FEM_LABEL}) @@ (MSC_LABEL :> {MSC_LABEL}),
     OTHER_GENDER_LABELS |-> (FEM_LABEL :> {MSC_LABEL}) @@ (MSC_LABEL :> {FEM_LABEL})]

\* the pymorphy2 labels with 'femn' registered under the wrong table
RussianMorphFilterer_init_swapped ==
    LET base == MorphFilterer_init
    IN  [MATCH_GENDER_LABELS |->
             LabelsUpdate(LabelsUpdate(base.MATCH_GENDER_LABELS, FEM_LABEL, {"femn"}),
                          MSC_LABEL, {"masc"}),
         OTHER_GENDER_LABELS |->
             LabelsUpdate(LabelsUpdate(base.OTHER_GENDER_LABELS, FEM_LABEL, {"femn"}),
                          MSC_LABEL, {"masc"})]

\* RussianMorphFilterer.__init__: the pymorphy2 labels
RussianMorphFilterer_init ==
    LET base == MorphFilterer_init
    IN  [MATCH_GENDER_LABELS |->
             LabelsUpdate(LabelsUpdate(base.MATCH_GENDER_LABELS, FEM_LABEL, {"femn"}),
                          MSC_LABEL, {"masc"}),
         OTHER_GENDER_LABELS |->
             LabelsUpdate(LabelsUpdate(base.OTHER_GENDER_LABELS, FEM_LABEL, {"masc"}),
                          MSC_LABEL, {"femn"})]

\* SpacyMorphFilterer.__init__: the spaCy labels
SpacyMorphFilterer_init ==
    LET base == MorphFilterer_init
    IN  [MATCH_GENDER_LABELS |->
             LabelsUpdate(LabelsUpdate(base.MATCH_GENDER_LABELS, FEM_LABEL, {"Fem"}),
                          MSC_LABEL, {"Masc"}),
         OTHER_GENDER_LABELS |->
             LabelsUpdate(LabelsUpdate(base.OTHER_GENDER_LABELS, FEM_LABEL, {"Masc"}),
                          MSC_LABEL, {"Fem"})]

(***************************************************************************)
(* GermanMorphFilterer                                                     *)
(***************************************************************************)
\* str.split(sep) for a one-character separator: empty fields are kept
RECURSIVE SplitOnAcc(_, _, _, _, _)
SplitOnAcc(s, sep, i, cur, acc) ==
    IF i > Len(s) THEN Append(acc, cur)
    ELSE IF s[i] = sep
         THEN SplitOnAcc(s, sep, i + 1, <<>>, Append(acc, cur))
         ELSE SplitOnAcc(s, sep, i + 1, Append(cur, s[i]), acc)

SplitOn(s, sep) == SplitOnAcc(s, sep, 1, <<>>, <<>>)

\* the rows of the dictionary file GERMAN_MORPH_DICT
DE_morph_dict ==
    << <<"F","r","a","u"," ","N","N",",","f","e","m",",","n","o","m",",","s","i","n","g">>,
       <<"M","a","n","n"," ","N","N",",","m","a","s","c",",","n","o","m",",","s","i","n","g">>,
       <<"H","a","u","s"," ","N","N",",","n","e","u","t",",","n","o","m",",","s","i","n","g">>,
       <<"S","e","e"," ","N","N",",","f","e","m",",","n","o","m",",","s","i","n","g">>,
       <<"S","e","e"," ","N","N",",","m","a","s","c",",","n","o","m",",","s","i","n","g">>,
       <<"g","e","h","t"," ","V",",","3",",","s","i","n","g">>,
       <<"T","o","c","h","t","e","r">>,
       <<"d","i","e"," ","A","R","T",",","d","e","f">> >>

\* the word-forms of the rows tagged noun with the gender subtag
MorphsOf(rows, subtag) ==
    {Lower(Split(Strip(rows[i]))[1]) : i \in
        {j \in 1..Len(rows) :
            LET line == Split(Strip(rows[j]))
            IN  /\ Len(line) > 1
                /\ LET tag == SplitOn(line[2], ",")
                   IN  /\ Len(tag) > 2
                       /\ tag[1] = <<"N","N">>
                       /\ tag[2] = subtag}}

\* a variant in which a word with both genders defaults to feminine
_get_gender_dict_fem_default(rows) ==
    LET fem_morphs == MorphsOf(rows, <<"f","e","m">>)
        msc_morphs == MorphsOf(rows, <<"m","a","s","c">>)
    IN  [word \in fem_morphs \cup msc_morphs |->
            IF word \in fem_morphs THEN FEM_LABEL ELSE MSC_LABEL]

\* GermanMorphFilterer._get_gender_dict: a word with both genders is excluded
_get_gender_dict(rows) ==
    LET fem_morphs == MorphsOf(rows, <<"f","e","m">>)
        msc_morphs == MorphsOf(rows, <<"m","a","s","c">>)
    IN  [word \in (fem_morphs \ msc_morphs) \cup (msc_morphs \ fem_morphs) |->
            IF word \in fem_morphs THEN FEM_LABEL ELSE MSC_LABEL]

\* GermanMorphFilterer.__init__: the label tables and self.gender_dict
GermanMorphFilterer_init ==
    [MATCH_GENDER_LABELS |-> MorphFilterer_init.MATCH_GENDER_LABELS,
     OTHER_GENDER_LABELS |-> MorphFilterer_init.OTHER_GENDER_LABELS,
     gender_dict |-> _get_gender_dict(DE_morph_dict)]

\* the orders in which a Python set may be iterated
Orderings(S) ==
    {q \in [1..Cardinality(S) -> S] : \A i, j \in 1..Cardinality(S) : i # j => q[i] # q[j]}

\* GermanMorphFilterer._get_gender_per_word: the label lists it may return
\* (the words are iterated as a set, in any order)
German_get_gender_per_word(f, sentence) ==
    LET words == SeqToSet(Split(Lower(Strip(StripPunctuation(sentence)))))
    IN  {[i \in 1..Len(q) |->
            IF q[i] \in DOMAIN f.gender_dict THEN f.gender_dict[q[i]] ELSE OTHER_LABEL] :
         q \in Orderings(words)}

(***************************************************************************)
(* HebrewMorphFilterer                                                     *)
(***************************************************************************)
fem_chars == {"ת", "ה"}
msc_chars == {"ק", "ד", "ר", "ש", "ט", "ב", "א", "ך", "ל", "ס"}

\* the label of one token
HebrewLabel(word) ==
    IF word # <<"א","ת">>
    THEN IF word[Len(word)] \in fem_chars THEN FEM_LABEL
         ELSE IF word[Len(word)] \in msc_chars THEN MSC_LABEL
         ELSE OTHER_LABEL
    ELSE OTHER_LABEL

\* HebrewMorphFilterer._get_gender_per_word
Hebrew_get_gender_per_word(sentence) ==
    LET tokens == SeqToSet(Split(sentence))
    IN  {[i \in 1..Len(q) |-> HebrewLabel(q[i])] : q \in Orderings(tokens)}

(***************************************************************************)
(* RussianMorphFilterer                                                    *)
(***************************************************************************)
\* pymorphy2.tokenizers.simple_word_tokenize: whitespace separates, every
\* other character that is neither a word character nor "-" is a token
RuSeparate == Punctuation \ {"_", "-"}

RECURSIVE TokenizeAcc(_, _, _, _)
TokenizeAcc(s, i, cur, acc) ==
    LET flushed == IF cur = <<>> THEN acc ELSE Append(acc, cur)
    IN  IF i > Len(s) THEN flushed
        ELSE IF s[i] \in Whitespace THEN TokenizeAcc(s, i + 1, <<>>, flushed)
        ELSE IF s[i] \in RuSeparate
             THEN TokenizeAcc(s, i + 1, <<>>, Append(flushed, <<s[i]>>))
             ELSE TokenizeAcc(s, i + 1, Append(cur, s[i]), acc)

simple_word_tokenize(s) == TokenizeAcc(s, 1, <<>>, <<>>)

\* tagger.parse(word)[0].tag.gender: the gender of the top-ranked analysis
\* (the Russian words are written in Latin transliteration)
TaggerGender(word) ==
    IF word \in {<<"o","n","a">>, <<"p","r","i","s","h","l","a">>, <<"z","h","e","n","s","h","c","h","i","n","a">>} THEN "femn"
    ELSE IF word \in {<<"o","n">>, <<"p","r","i","s","h","e","l">>} THEN "masc"
    ELSE IF word \in {<<"o","k","n","o">>} THEN "neut"
    ELSE None

\* RussianMorphFilterer._get_gender_per_word
Russian_get_gender_per_word(sentence) ==
    LET tokens == simple_word_tokenize(sentence)
    IN  {[i \in 1..Len(tokens) |-> TaggerGender(tokens[i])]}

(***************************************************************************)
(* SpacyMorphFilterer                                                      *)
(***************************************************************************)
\* token.tag_ as the tagger of a language assigns it: the part before "__"
\* and the part after it, which is None when the tag has no "__", "_" when
\* the token has no features, and else the "|"-separated properties, each
\* already cut at its "="
Tag(coarse, morph) == [coarse |-> coarse, morph |-> morph]

SpacyTag(l, word) ==
    IF l = "fr"
    THEN IF word \in {<<"l","a">>, <<"f","e","m","m","e">>}
         THEN Tag("NOUN", <<<<"Gender", "Fem">>, <<"Number", "Sing">>>>)
         ELSE IF word \in {<<"l","e">>, <<"h","o","m","m","e">>}
         THEN Tag("NOUN", <<<<"Gender", "Masc">>, <<"Number", "Sing">>>>)
         ELSE IF word = <<"p","a","r","l","e">>
         THEN Tag("VERB", <<<<"Mood", "Ind">>, <<"Number", "Sing">>>>)
         ELSE IF word = <<"e","t">> THEN Tag("CCONJ", "_")
         ELSE Tag("X", None)
    ELSE IF word \in {<<"l","a">>, <<"d","o","n","n","a">>}
         THEN Tag("NOUN", <<<<"Gender", "Fem">>, <<"Number", "Sing">>>>)
         ELSE IF word \in {<<"i","l">>, <<"u","o","m","o">>}
         THEN Tag("NOUN", <<<<"Gender", "Masc">>, <<"Number", "Sing">>>>)
         ELSE IF word = <<"p","a","r","l","a">>
         THEN Tag("VERB", <<<<"Mood", "Ind">>, <<"Number", "Sing">>>>)
         ELSE IF word = <<"e">> THEN Tag("CCONJ", "_")
         ELSE Tag("X", None)

\* SpacyMorphFilterer._get_morphology_dict: the property list as a dict
\* (a later property of the same key replaces an earlier one)
_get_morphology_dict(tag) ==
    IF tag.morph = None THEN <<>>
    ELSE IF tag.morph = "_" THEN <<>>
    ELSE LET props == tag.morph
             keys == {props[i][1] : i \in 1..Len(props)}
             last(k) == CHOOSE i \in 1..Len(props) :
                            /\ props[i][1] = k
                            /\ \A j \in 1..Len(props) : props[j][1] = k => j <= i
         IN  [k \in keys |-> props[last(k)][2]]

\* SpacyMorphFilterer._get_gender_per_word
Spacy_get_gender_per_word(l, sentence) ==
    LET words == Split(sentence)
        tokens == [i \in 1..Len(words) |-> _get_morphology_dict(SpacyTag(l, words[i]))]
    IN  {[i \in 1..Len(tokens) |->
            IF "Gender" \in DOMAIN tokens[i] THEN tokens[i]["Gender"] ELSE OTHER_LABEL]}

\* target_filter.main: the filterer constructed for a language; only the
\* German one has a gender_dict
FiltererFor(l) ==
    IF l = "de" THEN GermanMorphFilterer_init
    ELSE LET tables == IF l \in {"fr", "it"} THEN SpacyMorphFilterer_init
                       ELSE IF l = "he" THEN MorphFilterer_init
                       ELSE RussianMorphFilterer_init
         IN  [MATCH_GENDER_LABELS |-> tables.MATCH_GENDER_LABELS,
              OTHER_GENDER_LABELS |-> tables.OTHER_GENDER_LABELS,
              gender_dict |-> <<>>]

\* self._get_gender_per_word of the filterer f built for language l
_get_gender_per_word(f, l, sentence) ==
    IF l = "de" THEN German_get_gender_per_word(f, sentence)
    ELSE IF l = "he" THEN Hebrew_get_gender_per_word(sentence)
    ELSE IF l = "ru" THEN Russian_get_gender_per_word(sentence)
    ELSE Spacy_get_gender_per_word(l, sentence)

(***************************************************************************)
(* MorphFilterer._matches_gender                                           *)
(***************************************************************************)
\* the loop with the flag overwritten by every word instead of only set
RECURSIVE MatchLoopLastWord(_, _, _, _, _)
MatchLoopLastWord(f, gender_per_word, gender, i, has_matching_gender) ==
    IF i > Len(gender_per_word) THEN has_matching_gender
    ELSE LET current_gender == gender_per_word[i]
         IN  IF current_gender \in f.OTHER_GENDER_LABELS[gender] THEN FALSE
             ELSE MatchLoopLastWord(f, gender_per_word, gender, i + 1,
                                    current_gender \in f.MATCH_GENDER_LABELS[gender])

\* the loop returning at the first label that decides, of either kind
RECURSIVE MatchLoopFirstDecides(_, _, _, _, _)
MatchLoopFirstDecides(f, gender_per_word, gender, i, has_matching_gender) ==
    IF i > Len(gender_per_word) THEN has_matching_gender
    ELSE LET current_gender == gender_per_word[i]
         IN  IF current_gender \in f.OTHER_GENDER_LABELS[gender] THEN FALSE
             ELSE IF current_gender \in f.MATCH_GENDER_LABELS[gender] THEN TRUE
             ELSE MatchLoopFirstDecides(f, gender_per_word, gender, i + 1,
                                        has_matching_gender)

\* the loop over gender_per_word, from position i on
RECURSIVE MatchLoop(_, _, _, _, _)
MatchLoop(f, gender_per_word, gender, i, has_matching_gender) ==
    IF i > Len(gender_per_word) THEN has_matching_gender
    ELSE LET current_gender == gender_per_word[i]
         IN  IF current_gender \in f.OTHER_GENDER_LABELS[gender] THEN FALSE
             ELSE MatchLoop(f, gender_per_word, gender, i + 1,
                            has_matching_gender
                              \/ current_gender \in f.MATCH_GENDER_LABELS[gender])

\* _matches_gender on the label list the classifier returned
MatchesLabels(f, gender_per_word, gender) ==
    MatchLoop(f, gender_per_word, gender, 1, FALSE)

(***************************************************************************)
(* State                                                                   *)
(***************************************************************************)
VARIABLES
    pc,              \* position of the running driver
    lang,            \* --target-language
    gender,          \* --gender
    resources_ok,    \* the dictionary file / the analyzer model can be loaded
    readable,        \* the input files that exist and can be read
    in_src,          \* lines of the source input file
    in_trg,          \* lines of the target input file
    filterer,        \* the constructed MorphFilterer (its label tables)
    opened,          \* the file streams that are open
    created,         \* the output files that were created or truncated
    out_src,         \* what was written to the source output
    out_trg,         \* what was written to the target output
    count_total,     \* lines (pairs) read
    count_kept,      \* pairs written
    calls,           \* invocations of _matches_gender
    error,           \* the failure that ended the run, or None
    run,             \* 1: first run, 2: the run over the outputs of the first
    first,           \* <<count_total, count_kept>> returned by the first run
    line,            \* source filter: <<the line read last>>
    line_gender,     \* source filter: the local variable gender
    fem_out,         \* source filter: what was written to the feminine output
    msc_out,         \* source filter: what was written to the masculine output
    count_fem,       \* source filter: feminine lines written
    count_msc,       \* source filter: masculine lines written
    gender_per_word, \* aggregator: the label list of the classifier
    verdict,         \* aggregator: what _matches_gender returned
    morph_dict,      \* the rows of the dictionary file the German filterer loads
    driver           \* the script that runs: target_filter or source_filter

vars == <<pc, lang, gender, resources_ok, readable, in_src, in_trg, filterer, opened, created,
          out_src, out_trg, count_total, count_kept, calls, error, run, first,
          line, line_gender, fem_out, msc_out, count_fem, count_msc,
          gender_per_word, verdict, morph_dict, driver>>

target_vars == <<lang, gender, resources_ok, readable, in_src, in_trg, filterer, created,
                 out_src, out_trg, count_kept, calls, run, first>>
source_vars == <<line, line_gender, fem_out, msc_out, count_fem, count_msc>>
match_vars == <<gender_per_word, verdict>>
dict_vars == <<morph_dict>>

\* the filterer before its constructor ran
NotConstructed ==
    [MATCH_GENDER_LABELS |-> <<>>, OTHER_GENDER_LABELS |-> <<>>, gender_dict |-> <<>>]

(***************************************************************************)
(* Bounds and inputs                                                       *)
(***************************************************************************)
\* longest input file of the target filter, in lines
MaxLines == 2
\* longest label list handed to the aggregator
MaxLabels == 3
\* most lines the source filter reads
MaxSourceLines == 2

Max(a, b) == IF a >= b THEN a ELSE b

\* the sequences over S of length at most n
SeqsUpTo(S, n) == UNION {[1..k -> S] : k \in 0..n}

\* English source sentences of one and of two tokens
SourceTexts == {<<"s","h","e">>, <<"s","h","e"," ","s","a","n","g">>}

\* target sentences of a language: a matching one of two tokens, one of three
\* tokens, one of the other gender and a mixed one
TargetTexts(l) ==
    IF l = "de" THEN {<<"d","i","e"," ","F","r","a","u">>, <<"d","i","e"," ","F","r","a","u"," ","g","e","h","t",".">>, <<"d","e","r"," ","M","a","n","n">>, <<"M","a","n","n"," ","F","r","a","u">>}
    ELSE IF l = "he" THEN {<<"ר","ו","פ","א","ה"," ","כ","ן">>, <<"א","ת"," ","ר","ו","פ","א","ה"," ","כ","ן">>, <<"ר","ו","פ","א"," ","ט","ו","ב">>, <<"ר","ו","פ","א","ה"," ","ר","ו","פ","א">>}
    ELSE IF l = "ru" THEN {<<"o","n","a"," ","p","r","i","s","h","l","a">>, <<"z","h","e","n","s","h","c","h","i","n","a"," ","o","n","a"," ","p","r","i","s","h","l","a">>, <<"o","n"," ","p","r","i","s","h","e","l">>,
                           <<"o","n","a"," ","o","n">>}
    ELSE IF l = "it" THEN {<<"l","a"," ","d","o","n","n","a">>, <<"l","a"," ","d","o","n","n","a"," ","p","a","r","l","a">>, <<"i","l"," ","u","o","m","o">>, <<"d","o","n","n","a"," ","u","o","m","o">>}
    ELSE {<<"l","a"," ","f","e","m","m","e">>, <<"l","a"," ","f","e","m","m","e"," ","p","a","r","l","e">>, <<"l","e"," ","h","o","m","m","e">>, <<"f","e","m","m","e"," ","h","o","m","m","e">>}

\* the files of at most MaxLines lines over the texts: the lines as iterating
\* the file yields them, each ending in a newline except, when eof_nl is
\* false, the last
FilesOver(texts, eof_nl) ==
    {[i \in 1..Len(q) |-> MkLine(q[i], 0, eof_nl \/ i < Len(q))] :
        q \in SeqsUpTo(texts, MaxLines)}

(***************************************************************************)
(* target_filter.py and MorphFilterer.target_filter                        *)
(***************************************************************************)
\* the str a line stands for
LineStr(l) == l.text \o Spaces(l.pad) \o (IF l.nl THEN <<"\n">> ELSE <<>>)

\* the lines read back from a file to which the strs w were written: a str
\* without a final newline runs into the next one
RECURSIVE FileLines(_)
FileLines(w) ==
    IF Len(w) <= 1 THEN w
    ELSE IF w[1].nl THEN <<w[1]>> \o FileLines(Tail(w))
    ELSE FileLines(<<MkLine(w[1].text \o Spaces(w[1].pad) \o w[2].text, w[2].pad, w[2].nl)>>
                   \o Tail(Tail(w)))

\* argparse: choices=SUPPORTED_LANGUAGES, choices=SUPPORTED_GENDERS
ArgsAccepted(l, g) == l \in SUPPORTED_LANGUAGES /\ g \in SUPPORTED_GENDERS

\* the constructors that read a dictionary file or load an analyzer model
\* (HebrewMorphFilterer builds its tokenizer from code alone)
LoadsResource(l) == l \in {"de", "fr", "it", "ru"}

\* the outputs opened before the inputs
OpenOrderOutputsFirst == <<"out_src", "out_trg", "in_src", "in_trg">>

\* the order in which the with statement of target_filter opens the files
OpenOrder == <<"in_src", "in_trg", "out_src", "out_trg">>

\* zip_longest(in_src, in_trg): the i-th pair; <<line>> is a line and <<>> the
\* None that fills the shorter file
PairAt(i) ==
    [src |-> IF i <= Len(in_src) THEN <<in_src[i]>> ELSE <<>>,
     trg |-> IF i <= Len(in_trg) THEN <<in_trg[i]>> ELSE <<>>]

\* the heuristic with a non-strict comparison
IsRepetitionAtLeast(src_line, trg_line) ==
    Len(Split(LineStr(src_line))) * 2 <= Len(Split(LineStr(trg_line)))

\* the heuristic of target_filter: the translation repeats tokens
IsRepetition(src_line, trg_line) ==
    Len(Split(LineStr(src_line))) * 2 < Len(Split(LineStr(trg_line)))

\* both writes given the source line
WrittenSourceTwice(src_line, trg_line) == [src |-> src_line, trg |-> src_line]

\* what target_filter writes for a kept pair
Written(src_line, trg_line) == [src |-> src_line, trg |-> trg_line]

\* a with statement that closes its streams on a return only
WithExitLeaksOnRaise(streams, raised) == IF raised THEN streams ELSE {}

\* the streams of a with statement still open once it is left, by the end
\* of its block or by an exception raised in it or while opening a file
WithExit(streams, raised) == {}

\* target_filter.main: parser.parse_args()
ParseArgs ==
    /\ pc = "parse_args"
    /\ IF ArgsAccepted(lang, gender)
       THEN pc' = "construct" /\ error' = error
       ELSE pc' = "failed" /\ error' = "usage"
    /\ UNCHANGED <<target_vars, opened, count_total, source_vars, match_vars, dict_vars, driver>>

\* target_filter.main: the filterer of the language is constructed
Construct ==
    /\ pc = "construct"
    /\ IF LoadsResource(lang) /\ ~resources_ok
       THEN /\ pc' = "failed"
            /\ error' = "load"
            /\ filterer' = filterer
       ELSE /\ pc' = "open"
            /\ error' = error
            /\ filterer' = FiltererFor(lang)
    /\ UNCHANGED <<lang, gender, resources_ok, readable, in_src,
                   in_trg, opened, created, out_src,
                   out_trg, count_total, count_kept, calls, run, first, source_vars,
                   match_vars, dict_vars, driver>>

\* the lines a readable input file may hold when it is opened; the two files
\* of a corpus agree on whether their last line ends in a newline
InputFiles(name) ==
    IF name = "in_src"
    THEN FilesOver(SourceTexts, TRUE) \cup FilesOver(SourceTexts, FALSE)
    ELSE IF in_src = <<>>
         THEN FilesOver(TargetTexts(lang), TRUE) \cup FilesOver(TargetTexts(lang), FALSE)
         ELSE FilesOver(TargetTexts(lang), in_src[Len(in_src)].nl)

\* target_filter: the with statement opens the next file; a failing open
\* closes the files opened before it
OpenNext ==
    /\ pc = "open"
    /\ LET name == OpenOrder[Cardinality(opened) + 1]
       IN  IF name \in {"in_src", "in_trg"} \ readable
           THEN /\ pc' = "failed"
                /\ error' = "FileNotFoundError"
                /\ opened' = WithExit(opened, TRUE)
                /\ UNCHANGED <<created, in_src, in_trg>>
           ELSE /\ opened' = opened \cup {name}
                /\ created' = IF name \in {"out_src", "out_trg"}
                              THEN created \cup {name} ELSE created
                /\ IF name = "in_src" /\ run = 1
                   THEN in_src' \in InputFiles(name) ELSE in_src' = in_src
                /\ IF name = "in_trg" /\ run = 1
                   THEN in_trg' \in InputFiles(name) ELSE in_trg' = in_trg
                /\ pc' = IF Cardinality(opened) + 1 = Len(OpenOrder) THEN "loop" ELSE pc
                /\ error' = error
    /\ UNCHANGED <<lang, gender, resources_ok, readable, filterer, out_src, out_trg,
                   count_total, count_kept, calls, run, first, source_vars, match_vars, dict_vars, driver>>

\* target_filter: one iteration of the loop over zip_longest(in_src, in_trg)
ProcessPair ==
    /\ pc = "loop"
    /\ count_total < Max(Len(in_src), Len(in_trg))
    /\ count_total' = count_total + 1
    /\ LET pair == PairAt(count_total + 1)
       IN  IF pair.src = <<>> \/ pair.trg = <<>>
           THEN \* None has no split()
                /\ pc' = "failed"
                /\ error' = "AttributeError"
                /\ opened' = WithExit(opened, TRUE)
                /\ UNCHANGED <<out_src, out_trg, count_kept, calls>>
           ELSE IF IsRepetition(pair.src[1], pair.trg[1])
           THEN UNCHANGED <<pc, error, opened, out_src, out_trg, count_kept, calls>>
           ELSE \E labels \in _get_gender_per_word(filterer, lang, LineStr(pair.trg[1])) :
                  /\ calls' = calls + 1
                  /\ IF MatchesLabels(filterer, labels, gender)
                     THEN /\ count_kept' = count_kept + 1
                          /\ out_src' = Append(out_src, Written(pair.src[1], pair.trg[1]).src)
                          /\ out_trg' = Append(out_trg, Written(pair.src[1], pair.trg[1]).trg)
                     ELSE UNCHANGED <<out_src, out_trg, count_kept>>
                  /\ UNCHANGED <<pc, error, opened>>
    /\ UNCHANGED <<lang, gender, resources_ok, readable, in_src,
                   in_trg, filterer, created, run,
                   first, source_vars, match_vars, dict_vars, driver>>

\* target_filter: the inputs are exhausted, the files are closed and the
\* counts returned
Return ==
    /\ pc = "loop"
    /\ count_total >= Max(Len(in_src), Len(in_trg))
    /\ pc' = "done"
    /\ opened' = WithExit(opened, FALSE)
    /\ UNCHANGED <<target_vars, count_total, error, source_vars, match_vars, dict_vars, driver>>

\* the program is started again on the two files the first run wrote, with
\* the same language and gender and new output files
Rerun ==
    /\ pc = "done"
    /\ run = 1
    /\ run' = 2
    /\ first' = <<count_total, count_kept>>
    /\ in_src' = FileLines(out_src)
    /\ in_trg' = FileLines(out_trg)
    /\ pc' = "parse_args"
    /\ filterer' = NotConstructed
    /\ created' = {}
    /\ out_src' = <<>>
    /\ out_trg' = <<>>
    /\ count_total' = 0
    /\ count_kept' = 0
    /\ calls' = 0
    /\ UNCHANGED <<lang, gender, resources_ok, readable, opened, error, source_vars,
                   match_vars, dict_vars, driver>>

InitTarget ==
    /\ pc = "parse_args"
    /\ lang \in SUPPORTED_LANGUAGES \cup {"en"}
    /\ gender \in SUPPORTED_GENDERS \cup {"neut"}
    /\ resources_ok \in BOOLEAN
    /\ readable \in SUBSET {"in_src", "in_trg"}
    /\ in_src = <<>>
    /\ in_trg = <<>>
    /\ filterer = NotConstructed
    /\ opened = {}
    /\ created = {}
    /\ out_src = <<>>
    /\ out_trg = <<>>
    /\ count_total = 0
    /\ count_kept = 0
    /\ calls = 0
    /\ error = None
    /\ run = 1
    /\ first = <<>>
    /\ line = <<>>
    /\ line_gender = None
    /\ fem_out = <<>>
    /\ msc_out = <<>>
    /\ count_fem = 0
    /\ count_msc = 0
    /\ gender_per_word = <<>>
    /\ verdict = FALSE
    /\ morph_dict = DE_morph_dict
    /\ driver = "target_filter"

NextTarget == ParseArgs \/ Construct \/ OpenNext \/ ProcessPair \/ Return \/ Rerun

SpecTarget == InitTarget /\ [][NextTarget]_vars

(***************************************************************************)
(* source_filter.py: main                                                  *)
(***************************************************************************)
\* sentences with exactly one feminine pronoun and no masculine word
BaseTexts == {<<"S","h","e"," ","m","e","t"," ","S","m","i","t","h",".">>, <<"h","e","r">>}

\* the text followed by one more whitespace-separated token
WithWord(text, word) == text \o <<" ">> \o word

\* the line to which the masculine words are appended
ExtendedText == <<"S","h","e"," ","m","e","t"," ","S","m","i","t","h",".">>

\* the sentences the input of the source filter is drawn from
EnglishTexts ==
    BaseTexts
      \cup {WithWord(ExtendedText, word) : word \in MSC_WORDS}
      \cup {<<"S","h","e"," ","m","e","t"," ","M","r","."," ","S","m","i","t","h",".">>, <<"H","e"," ","m","e","t"," ","M","r","s","."," ","S","m","i","t","h",".">>, <<"h","e"," ","s","a","n","g">>, <<"H","I","S">>,
            <<"t","h","e","y"," ","s","a","n","g">>, <<"t","h","e"," ","w","o","m","a","n"," ","s","a","n","g">>}

\* the line of the text padded with trailing spaces to n characters
PadTo(text, n, nl) == MkLine(text, n - Len(text) - (IF nl THEN 1 ELSE 0), nl)

\* the lines the input of the source filter is drawn from: every sentence as
\* an ordinary line, and lines of 1000 and of 1001 characters, with and
\* without the final newline
SourceLines ==
    {MkLine(t, 0, TRUE) : t \in EnglishTexts}
      \cup {PadTo(t, n, nl) : t \in {<<"s","h","e">>, <<"h","e"," ","s","a","n","g">>, <<"t","h","e","y"," ","s","a","n","g">>},
                              n \in {1000, 1001}, nl \in BOOLEAN}

\* the skip with a non-strict comparison
IsSkippedAtLeast(l) == StrLen(l) >= 1000

\* source_filter.main: the loop skips the line
IsSkipped(l) == StrLen(l) > 1000

\* source_filter.main: the with statement opens the three files
SourceOpen ==
    /\ pc = "open"
    /\ IF "infile" \in readable
       THEN /\ opened' = {"infile", "fem_out", "msc_out"}
            /\ pc' = "loop"
            /\ error' = error
       ELSE /\ opened' = WithExit(opened, TRUE)
            /\ pc' = "failed"
            /\ error' = "FileNotFoundError"
    /\ UNCHANGED <<target_vars, count_total, source_vars, match_vars, dict_vars, driver>>

\* source_filter.main: one iteration of the loop over the lines of infile
SourceLine ==
    /\ pc = "loop"
    /\ count_total < MaxSourceLines
    /\ IF line = <<>> THEN TRUE ELSE line[1].nl
    /\ \E l \in SourceLines :
         /\ line' = <<l>>
         /\ count_total' = count_total + 1
         /\ IF IsSkipped(l)
            THEN UNCHANGED <<line_gender, fem_out, msc_out, count_fem, count_msc>>
            ELSE /\ line_gender' = _get_gender(l)
                 /\ IF line_gender' = FEM_LABEL
                    THEN /\ count_fem' = count_fem + 1
                         /\ fem_out' = Append(fem_out, l)
                         /\ UNCHANGED <<msc_out, count_msc>>
                    ELSE IF line_gender' = MSC_LABEL
                    THEN /\ count_msc' = count_msc + 1
                         /\ msc_out' = Append(msc_out, l)
                         /\ UNCHANGED <<fem_out, count_fem>>
                    ELSE UNCHANGED <<fem_out, msc_out, count_fem, count_msc>>
    /\ UNCHANGED <<target_vars, pc, opened, error, match_vars, dict_vars, driver>>

\* source_filter.main: infile is exhausted, the files are closed
SourceEnd ==
    /\ pc = "loop"
    /\ pc' = "done"
    /\ opened' = WithExit(opened, FALSE)
    /\ UNCHANGED <<target_vars, count_total, error, source_vars, match_vars, dict_vars, driver>>

InitSource ==
    /\ pc = "open"
    /\ lang = "en"
    /\ gender = OTHER_LABEL
    /\ resources_ok = TRUE
    /\ readable \in SUBSET {"infile"}
    /\ in_src = <<>>
    /\ in_trg = <<>>
    /\ filterer = NotConstructed
    /\ opened = {}
    /\ created = {}
    /\ out_src = <<>>
    /\ out_trg = <<>>
    /\ count_total = 0
    /\ count_kept = 0
    /\ calls = 0
    /\ error = None
    /\ run = 1
    /\ first = <<>>
    /\ line = <<>>
    /\ line_gender = None
    /\ fem_out = <<>>
    /\ msc_out = <<>>
    /\ count_fem = 0
    /\ count_msc = 0
    /\ gender_per_word = <<>>
    /\ verdict = FALSE
    /\ morph_dict = <<>>
    /\ driver = "source_filter"

NextSource == SourceOpen \/ SourceLine \/ SourceEnd

SpecSource == InitSource /\ [][NextSource]_vars

(***************************************************************************)
(* The aggregator on the label lists a classifier may return               *)
(***************************************************************************)
\* every raw label of the four analyzers
RawLabels ==
    {FEM_LABEL, MSC_LABEL, OTHER_LABEL, "femn", "masc", "neut", None, "Fem", "Masc", "Neut"}

\* the constructor of the filterer of the language
MatchConstruct ==
    /\ pc = "construct"
    /\ filterer' = FiltererFor(lang)
    /\ pc' = "classify"
    /\ UNCHANGED <<lang, gender, resources_ok, readable, in_src, in_trg, opened, created,
                   out_src, out_trg, count_total, count_kept, calls, error, run, first,
                   source_vars, match_vars, dict_vars, driver>>

\* _matches_gender on a sentence for which the classifier returns the labels
MatchSentence ==
    /\ pc = "classify"
    /\ \E labels \in SeqsUpTo(RawLabels, MaxLabels) :
         /\ gender_per_word' = labels
         /\ verdict' = MatchesLabels(filterer, labels, gender)
    /\ calls' = 1
    /\ pc' = "done"
    /\ UNCHANGED <<lang, gender, resources_ok, readable, in_src, in_trg, filterer,
                   opened, created, out_src, out_trg, count_total, count_kept, error, run,
                   first, source_vars, dict_vars, driver>>

InitMatch ==
    /\ pc = "construct"
    /\ lang \in SUPPORTED_LANGUAGES
    /\ gender \in SUPPORTED_GENDERS
    /\ resources_ok = TRUE
    /\ readable = {}
    /\ in_src = <<>>
    /\ in_trg = <<>>
    /\ filterer = NotConstructed
    /\ opened = {}
    /\ created = {}
    /\ out_src = <<>>
    /\ out_trg = <<>>
    /\ count_total = 0
    /\ count_kept = 0
    /\ calls = 0
    /\ error = None
    /\ run = 1
    /\ first = <<>>
    /\ line = <<>>
    /\ line_gender = None
    /\ fem_out = <<>>
    /\ msc_out = <<>>
    /\ count_fem = 0
    /\ count_msc = 0
    /\ gender_per_word = <<>>
    /\ verdict = FALSE
    /\ morph_dict = DE_morph_dict
    /\ driver = "target_filter"

NextMatch == MatchConstruct \/ MatchSentence

SpecMatch == InitMatch /\ [][NextMatch]_vars

(***************************************************************************)
(* The German dictionary loader on the dictionary files it may be given    *)
(***************************************************************************)
\* most rows of a dictionary file
MaxDictRows == 3

\* the tag list NN,<subtag>,nom of a noun row
NounTags(subtag) == << <<"N","N">>, subtag, <<"n","o","m">> >>

\* the rows as (word, tag list): nouns of the three genders, two word-forms
\* that differ by case only, a noun row of two tags only, a verb row whose
\* second tag is fem, a row without a tag field, an empty line
DictShapes ==
    { [word |-> <<"F","r","a","u">>, tags |-> NounTags(<<"f","e","m">>)],
      [word |-> <<"F","r","a","u">>, tags |-> NounTags(<<"m","a","s","c">>)],
      [word |-> <<"F","R","A","U">>, tags |-> NounTags(<<"f","e","m">>)],
      [word |-> <<"F","R","A","U">>, tags |-> NounTags(<<"m","a","s","c">>)],
      [word |-> <<"M","a","n","n">>, tags |-> NounTags(<<"f","e","m">>)],
      [word |-> <<"M","a","n","n">>, tags |-> NounTags(<<"m","a","s","c">>)],
      [word |-> <<"M","a","n","n">>, tags |-> NounTags(<<"n","e","u","t">>)],
      [word |-> <<"M","a","n","n">>, tags |-> << <<"N","N">>, <<"f","e","m">> >>],
      [word |-> <<"M","a","n","n">>, tags |-> << <<"V">>, <<"f","e","m">>, <<"s","i","n","g">> >>],
      [word |-> <<"F","r","a","u">>, tags |-> <<>>],
      [word |-> <<>>, tags |-> <<>>] }

\* tag1,tag2,...
RECURSIVE JoinTags(_)
JoinTags(tags) ==
    IF Len(tags) = 0 THEN <<>>
    ELSE IF Len(tags) = 1 THEN tags[1]
    ELSE tags[1] \o <<",">> \o JoinTags(Tail(tags))

\* the line of the file: <word> <tag1,tag2,...> and the newline
DictRow(shape) ==
    shape.word \o (IF shape.tags = <<>> THEN <<>> ELSE <<" ">> \o JoinTags(shape.tags))
               \o <<"\n">>

DictRows == {DictRow(shape) : shape \in DictShapes}

\* GermanMorphFilterer.__init__ on the dictionary file
LoadDict ==
    /\ pc = "construct"
    /\ filterer' = [MATCH_GENDER_LABELS |-> MorphFilterer_init.MATCH_GENDER_LABELS,
                    OTHER_GENDER_LABELS |-> MorphFilterer_init.OTHER_GENDER_LABELS,
                    gender_dict |-> _get_gender_dict(morph_dict)]
    /\ pc' = "done"
    /\ UNCHANGED <<lang, gender, resources_ok, readable, in_src, in_trg, opened, created,
                   out_src, out_trg, count_total, count_kept, calls, error, run, first,
                   source_vars, match_vars, dict_vars, driver>>

InitDict ==
    /\ pc = "construct"
    /\ lang = "de"
    /\ gender = "fem"
    /\ resources_ok = TRUE
    /\ readable = {}
    /\ in_src = <<>>
    /\ in_trg = <<>>
    /\ filterer = NotConstructed
    /\ opened = {}
    /\ created = {}
    /\ out_src = <<>>
    /\ out_trg = <<>>
    /\ count_total = 0
    /\ count_kept = 0
    /\ calls = 0
    /\ error = None
    /\ run = 1
    /\ first = <<>>
    /\ line = <<>>
    /\ line_gender = None
    /\ fem_out = <<>>
    /\ msc_out = <<>>
    /\ count_fem = 0
    /\ count_msc = 0
    /\ gender_per_word = <<>>
    /\ verdict = FALSE
    /\ morph_dict \in SeqsUpTo(DictRows, MaxDictRows)
    /\ driver = "target_filter"

NextDict == LoadDict

SpecDict == InitDict /\ [][NextDict]_vars

(***************************************************************************)
(* The filtering runs of both scripts                                      *)
(***************************************************************************)
InitRuns == InitTarget \/ InitSource

NextRuns ==
    \/ driver = "target_filter" /\ NextTarget
    \/ driver = "source_filter" /\ NextSource

SpecRuns == InitRuns /\ [][NextRuns]_vars

(***************************************************************************)
(* Properties                                                              *)
(***************************************************************************)
\* some label of the list is in the set
AnyIn(labels, S) == \E i \in 1..Len(labels) : labels[i] \in S

\* the sentence-level rule: at least one matching word and no opposing word
AcceptedBy(f, labels, g) ==
    /\ AnyIn(labels, f.MATCH_GENDER_LABELS[g])
    /\ ~AnyIn(labels, f.OTHER_GENDER_LABELS[g])

\* C1: _matches_gender returns true exactly when the label list of the
\* classifier holds at least one label of MATCH_GENDER_LABELS[gender] and no
\* label of OTHER_GENDER_LABELS[gender], wherever in the list they stand; a
\* list with no label of either set is rejected.
C1_VerdictIsMatchAndNoOther ==
    pc = "done" => verdict = AcceptedBy(filterer, gender_per_word, gender)

\* C1 witness: an opposite label after a matching one rejects the sentence.
C1_Witness ==
    /\ pc = "done"
    /\ Len(gender_per_word) = 3
    /\ gender_per_word[1] \in filterer.MATCH_GENDER_LABELS[gender]
    /\ gender_per_word[2] \notin filterer.OTHER_GENDER_LABELS[gender]
    /\ gender_per_word[3] \in filterer.OTHER_GENDER_LABELS[gender]
    /\ verdict = FALSE

\* the number of whitespace-separated tokens of a line
TokenCount(l) == Len(Split(LineStr(l)))

\* the target line matches the gender under the filterer of the run
TargetMatches(l) ==
    \E labels \in _get_gender_per_word(filterer, lang, LineStr(l)) :
        AcceptedBy(filterer, labels, gender)

\* C2: every pair of lines read by target_filter increments the total; a pair
\* whose target has more than twice the tokens of its source is dropped
\* without _matches_gender being called; any other pair is written to both
\* outputs and counted as kept exactly when the target matches the gender.
C2_PairDroppedOrClassified ==
    [][(/\ pc = "loop"
        /\ count_total < Len(in_src)
        /\ count_total < Len(in_trg)
        /\ count_total' # count_total)
       => LET src_line == in_src[count_total + 1]
              trg_line == in_trg[count_total + 1]
          IN  /\ count_total' = count_total + 1
              /\ IF TokenCount(trg_line) > 2 * TokenCount(src_line)
                 THEN /\ calls' = calls
                      /\ count_kept' = count_kept
                      /\ out_src' = out_src
                      /\ out_trg' = out_trg
                 ELSE /\ calls' = calls + 1
                      /\ IF TargetMatches(trg_line)
                         THEN /\ count_kept' = count_kept + 1
                              /\ out_src' = Append(out_src, src_line)
                              /\ out_trg' = Append(out_trg, trg_line)
                         ELSE /\ count_kept' = count_kept
                              /\ out_src' = out_src
                              /\ out_trg' = out_trg]_vars

\* C2 witness: a pair whose target matches the gender but has three tokens
\* for one source token was read and dropped, and a pair whose target has
\* exactly twice the tokens of its source was kept.
C2_Witness ==
    /\ pc = "done"
    /\ run = 1
    /\ count_total = 2
    /\ Len(in_src) = 2
    /\ Len(in_trg) = 2
    /\ TokenCount(in_trg[1]) = 3
    /\ TokenCount(in_src[1]) = 1
    /\ TargetMatches(in_trg[1])
    /\ TokenCount(in_trg[2]) = 2
    /\ TokenCount(in_src[2]) = 1
    /\ calls = 1
    /\ count_kept = 1
    /\ out_trg = <<in_trg[2]>>

\* C3: input files of different lengths do not make the run fail: it ends
\* normally and returns the line count of the longer file as the total.
C3_UnequalLengthsTolerated ==
    (/\ pc \in {"done", "failed"}
     /\ "out_trg" \in created
     /\ Len(in_src) # Len(in_trg))
    => (pc = "done" /\ count_total = Max(Len(in_src), Len(in_trg)))

\* the strictly increasing selections of n among the first m positions
Selections(n, m) ==
    {f \in [1..n -> 1..m] : \A j, k \in 1..n : j < k => f[j] < f[k]}

\* C4: at every point of a run over inputs of equal length both outputs hold
\* count_kept lines, count_kept <= count_total, and the k-th lines of the
\* two outputs are the unmodified source and target line of one input pair
\* among those read, the pairs standing in input order.
C4_OutputsAligned ==
    (Len(in_src) = Len(in_trg))
    => /\ Len(out_src) = count_kept
       /\ Len(out_trg) = count_kept
       /\ count_kept <= count_total
       /\ count_total <= Len(in_src)
       /\ \E f \in Selections(count_kept, count_total) :
            \A k \in 1..count_kept :
                out_src[k] = in_src[f[k]] /\ out_trg[k] = in_trg[f[k]]

\* C4 witness: of two different pairs the first was dropped and the second
\* kept, so that the first lines of the outputs are the second input pair.
C4_Witness ==
    /\ run = 1
    /\ count_total = 2
    /\ count_kept = 1
    /\ Len(in_src) = 2
    /\ Len(in_trg) = 2
    /\ out_src = <<in_src[2]>>
    /\ out_trg = <<in_trg[2]>>
    /\ in_src[1] # in_src[2]
    /\ in_trg[1] # in_trg[2]

\* C5: the run over the kept pairs of a first run, with the same language
\* and gender, ends normally, keeps every pair (total = kept = the kept
\* count of the first run) and writes outputs equal to its inputs.
C5_SecondRunKeepsAll ==
    (run = 2 /\ pc \in {"done", "failed"})
    => /\ pc = "done"
       /\ count_total = first[2]
       /\ count_kept = first[2]
       /\ out_src = in_src
       /\ out_trg = in_trg

\* C5 witness: the first run dropped one pair of two and the second run
\* kept the other.
C5_Witness ==
    /\ run = 2
    /\ pc = "done"
    /\ first = <<2, 1>>
    /\ count_total = 1
    /\ count_kept = 1
    /\ Len(out_trg) = 1

\* the run cannot start: an argument is not among the choices, the resource
\* of the filterer cannot be loaded, or an input file cannot be read
BadStart ==
    \/ lang \notin SUPPORTED_LANGUAGES
    \/ gender \notin SUPPORTED_GENDERS
    \/ (lang \in {"de", "fr", "it", "ru"} /\ ~resources_ok)
    \/ {"in_src", "in_trg"} \ readable # {}

\* C9: with an unsupported language or gender, an unloadable dictionary or
\* model, or an unreadable input file, the run never creates or truncates an
\* output file and never processes a pair; it can only end in a failure.
C9_FailFastNoOutput ==
    BadStart
    => /\ created = {}
       /\ {"out_src", "out_trg"} \cap opened = {}
       /\ out_src = <<>>
       /\ out_trg = <<>>
       /\ count_total = 0
       /\ calls = 0
       /\ pc \in {"parse_args", "construct", "open", "failed"}

\* C9 witness: valid arguments and a readable source file, but the target
\* file cannot be opened: the run failed after opening the source input.
C9_Witness ==
    /\ pc = "failed"
    /\ error = "FileNotFoundError"
    /\ readable = {"in_src"}
    /\ in_src # <<>>
    /\ created = {}
    /\ opened = {}

\* the labels that decide nothing for gender g
Undecided(f, g) ==
    {l \in RawLabels : l \notin f.MATCH_GENDER_LABELS[g] \cup f.OTHER_GENDER_LABELS[g]}

\* C10: for the constructed filterer of every language and for both genders
\* MATCH_GENDER_LABELS[g] and OTHER_GENDER_LABELS[g] are disjoint, also with
\* the analyzer labels registered, and the labels in neither set decide
\* nothing: the verdict on a list is the verdict on the list without them.
C10_LabelSetsDisjoint ==
    (pc # "construct")
    => /\ \A g \in SUPPORTED_GENDERS :
            /\ filterer.MATCH_GENDER_LABELS[g] \cap filterer.OTHER_GENDER_LABELS[g] = {}
            /\ g \in filterer.MATCH_GENDER_LABELS[g]
       /\ pc = "done" =>
            LET IsDecided(l) == l \notin Undecided(filterer, gender)
            IN  verdict = AcceptedBy(filterer, SelectSeq(gender_per_word, IsDecided), gender)

\* C10 witness: the Russian filterer with 'femn' registered accepted a list
\* holding 'femn' among labels that are in neither set.
C10_Witness ==
    /\ pc = "done"
    /\ lang = "ru"
    /\ gender = FEM_LABEL
    /\ "femn" \in filterer.MATCH_GENDER_LABELS[FEM_LABEL]
    /\ "masc" \in filterer.OTHER_GENDER_LABELS[FEM_LABEL]
    /\ gender_per_word = <<"neut", "femn", None>>
    /\ verdict = TRUE

\* a step of the source filter that reads a line
ReadsLine == pc = "loop" /\ count_total' = count_total + 1

\* the step writes nothing
NothingWritten ==
    /\ fem_out' = fem_out
    /\ msc_out' = msc_out
    /\ count_fem' = count_fem
    /\ count_msc' = count_msc

\* C6: a line not skipped for its length is classified Feminine exactly when
\* its word set meets the feminine pronouns and not the masculine words,
\* Masculine exactly when it meets the masculine pronouns and not the
\* feminine words, and Other else; the two conditions exclude each other,
\* the line is written to the one output of its gender and to no other, and
\* "She met Mr. Smith." is written to neither.
C6_ClassifiedByWordSets ==
    [][(ReadsLine /\ StrLen(line'[1]) <= 1000)
       => \A l \in {line'[1]} :
          \A words \in {_get_words(l)} :
          \A feminine \in {words \cap FEM_PRO # {} /\ words \cap MSC_WORDS = {}} :
          \A masculine \in {words \cap MSC_PRO # {} /\ words \cap FEM_WORDS = {}} :
              /\ ~(feminine /\ masculine)
              /\ (line_gender' = FEM_LABEL) <=> feminine
              /\ (line_gender' = MSC_LABEL) <=> masculine
              /\ (line_gender' = OTHER_LABEL) <=> (~feminine /\ ~masculine)
              /\ fem_out' = IF feminine THEN Append(fem_out, l) ELSE fem_out
              /\ msc_out' = IF masculine THEN Append(msc_out, l) ELSE msc_out
              /\ count_fem' = IF feminine THEN count_fem + 1 ELSE count_fem
              /\ count_msc' = IF masculine THEN count_msc + 1 ELSE count_msc
              /\ (l.text = <<"S","h","e"," ","m","e","t"," ","M","r","."," ","S","m","i","t","h",".">>)
                   => NothingWritten]_vars

\* C6 witness: after a feminine line, "She met Mr. Smith." was read and
\* written to neither output.
C6_Witness ==
    /\ count_total = 2
    /\ line = <<MkLine(<<"S","h","e"," ","m","e","t"," ","M","r","."," ","S","m","i","t","h",".">>, 0, TRUE)>>
    /\ line_gender = OTHER_LABEL
    /\ fem_out = <<MkLine(<<"S","h","e"," ","m","e","t"," ","S","m","i","t","h",".">>, 0, TRUE)>>
    /\ msc_out = <<>>

\* C7: a line whose word set holds exactly one feminine pronoun and no word
\* of the masculine wordlist is classified Feminine, and such a line with
\* any word of the masculine wordlist appended as one more token is
\* classified Other.
C7_MasculineWordReclassifies ==
    [][(ReadsLine /\ StrLen(line'[1]) <= 1000)
       => /\ \A words \in {_get_words(line'[1])} :
               (Cardinality(words \cap FEM_PRO) = 1 /\ words \cap MSC_WORDS = {})
                 => (line_gender' = FEM_LABEL /\ fem_out' = Append(fem_out, line'[1]))
          /\ \A b \in BaseTexts :
               (line'[1] = MkLine(b, 0, TRUE)) => line_gender' = FEM_LABEL
          /\ \A word \in MSC_WORDS :
               (line'[1] = MkLine(WithWord(ExtendedText, word), 0, TRUE))
                 => (line_gender' = OTHER_LABEL /\ NothingWritten)]_vars

\* C7 witness: "She met Smith." was classified Feminine and then
\* "She met Smith. Mr." Other.
C7_Witness ==
    /\ count_total = 2
    /\ fem_out = <<MkLine(ExtendedText, 0, TRUE)>>
    /\ line = <<MkLine(WithWord(ExtendedText, <<"M","r",".">>), 0, TRUE)>>
    /\ line_gender = OTHER_LABEL
    /\ count_fem = 1
    /\ msc_out = <<>>

\* C8: a line is skipped exactly when its length exceeds 1000 characters: it
\* is counted and written nowhere whatever its words; a line of at most 1000
\* characters is classified, and written when Feminine or Masculine.
C8_SkippedIffOver1000 ==
    [][ReadsLine
       => \A l \in {line'[1]} :
              IF StrLen(l) > 1000
              THEN NothingWritten /\ line_gender' = line_gender
              ELSE \A words \in {_get_words(l)} :
                   /\ line_gender' \in {FEM_LABEL, MSC_LABEL, OTHER_LABEL}
                   /\ (words \cap FEM_PRO # {} /\ words \cap MSC_WORDS = {})
                        => fem_out' = Append(fem_out, l)
                   /\ (words \cap MSC_PRO # {} /\ words \cap FEM_WORDS = {})
                        => msc_out' = Append(msc_out, l)]_vars

\* C8 witness: a feminine line of exactly 1000 characters was written, then
\* a feminine line of 1001 characters was counted and written nowhere.
C8_Witness ==
    /\ count_total = 2
    /\ StrLen(line[1]) = 1001
    /\ line[1].text = <<"s","h","e">>
    /\ Len(fem_out) = 1
    /\ StrLen(fem_out[1]) = 1000
    /\ count_fem = 1
    /\ msc_out = <<>>

\* the row as (word, tag list) of a line of the dictionary file
ShapeOf(row) == CHOOSE shape \in DictShapes : DictRow(shape) = row

\* the lowercased word-forms of the used noun rows with the gender subtag:
\* rows of a word and at least three tags, the first NN, the second the subtag
NounForms(rows, subtag) ==
    {Lower(shape.word) : shape \in
        {u \in {ShapeOf(rows[i]) : i \in 1..Len(rows)} :
            /\ Len(u.tags) > 2
            /\ u.tags[1] = <<"N","N">>
            /\ u.tags[2] = subtag}}

\* C11: in the GenderDict built from any dictionary file, a lowercased
\* word-form is Feminine exactly when some used noun row has it with the fem
\* subtag and no used noun row has it with the masc subtag, Masculine
\* symmetrically; a word-form with both is absent; nothing else is in the
\* mapping; and the load ends without an error whatever rows the file has
C11_AmbiguousNeverDefaulted ==
    pc = "done" =>
        LET fem == NounForms(morph_dict, <<"f","e","m">>)
            msc == NounForms(morph_dict, <<"m","a","s","c">>)
            d == filterer.gender_dict
        IN  /\ \A word \in fem \cup msc \cup DOMAIN d :
                  /\ (word \in DOMAIN d /\ d[word] = FEM_LABEL)
                        <=> (word \in fem /\ word \notin msc)
                  /\ (word \in DOMAIN d /\ d[word] = MSC_LABEL)
                        <=> (word \in msc /\ word \notin fem)
                  /\ (word \in fem /\ word \in msc) => word \notin DOMAIN d
            /\ DOMAIN d \subseteq fem \cup msc
            /\ error = None

\* a file of three rows was loaded: Frau is feminine, FRAU masculine, and a
\* two-tag noun row of Mann is skipped; the mapping is empty
C11_Witness ==
    /\ pc = "done"
    /\ morph_dict =
         << DictRow([word |-> <<"F","r","a","u">>,
                     tags |-> << <<"N","N">>, <<"f","e","m">>, <<"n","o","m">> >>]),
            DictRow([word |-> <<"F","R","A","U">>,
                     tags |-> << <<"N","N">>, <<"m","a","s","c">>, <<"n","o","m">> >>]),
            DictRow([word |-> <<"M","a","n","n">>,
                     tags |-> << <<"N","N">>, <<"f","e","m">> >>]) >>
    /\ DOMAIN filterer.gender_dict = {}

\* C12: every stream a filtering run opened is closed when the run has ended,
\* by the end of the loop or by a failure (while opening a file or while
\* processing a line); streams are open only between the with statement's
\* first open and its exit, in the target filter and in the source filter
C12_StreamsClosedAtEnd ==
    /\ pc \in {"done", "failed"} => opened = {}
    /\ opened # {} => pc \in {"open", "loop"}

\* the target filter had its four streams open and processed a pair, then
\* failed on a line of the loop, and no stream is open
C12_Witness ==
    /\ driver = "target_filter"
    /\ pc = "failed"
    /\ error = "AttributeError"
    /\ created = {"out_src", "out_trg"}
    /\ count_total = 2
    /\ calls = 1
    /\ opened = {}

====
